---- MODULE Spec2Model ----
(***************************************************************************)
(* Model of scripts/firewall.py: a command-line tool that adds, lists and  *)
(* deletes firewall rules of one Tencent Cloud Lighthouse instance.  The   *)
(* remote rule set lives in the cloud and outlives each process run; one   *)
(* run is: parse the arguments, resolve a "dynamic" source through the     *)
(* IP-echo service, call the chosen operation, print, exit.                *)
(***************************************************************************)
EXTENDS Integers, Sequences, FiniteSets, TLC

(***************************************************************************)
(* Bounds of the model.                                                    *)
(***************************************************************************)
\* process runs made one after the other on a small instance
MaxRuns == 1
\* process runs made one after the other on a large instance
MaxPagedRuns == 2
\* length of the rule set of a small instance before the first run
MaxRules == 2
\* rules that follow the filler rules of a large instance
MaxTail == 1

(***************************************************************************)
(* Values.  An optional value (Optional[str]) is a sequence: <<>> is None  *)
(* and <<v>> is the value v.  A port "22" is written 22.                   *)
(***************************************************************************)
None == <<>>

Some(v) == <<v>>

\* "Limit": 100 of the DescribeFirewallRules request
Limit == 100

\* the ordered list of IP-echo endpoints
tellers == <<"https://api-ipv4.ip.sb/ip">>

Fields == <<"Protocol", "Port", "CidrBlock", "Action", "FirewallRuleDescription">>

FirewallRule(protocol, port, source, action, description) ==
    [Protocol |-> protocol, Port |-> port, CidrBlock |-> source,
     Action |-> action, FirewallRuleDescription |-> description]

\* the address the IP-echo service reports for this host
PublicIp == "1.2.3.4"

\* the source the cloud API gives a rule created without a CidrBlock
DefaultCidr == "0.0.0.0/0"

\* rules an instance may hold before the first run
RuleUniverse ==
    { FirewallRule("TCP", 22, "0.0.0.0/0", "ACCEPT", "desc-A"),
      FirewallRule("TCP", 22, "0.0.0.0/0", "ACCEPT", "desc-B"),
      FirewallRule("TCP", 80, "0.0.0.0/0", "ACCEPT", "desc-A"),
      FirewallRule("UDP", 22, "5.6.7.8", "DROP", "desc-A") }

\* rules that may follow the filler rules of a large instance
TailUniverse ==
    { FirewallRule("TCP", 22, "0.0.0.0/0", "ACCEPT", "desc-B"),
      FirewallRule("UDP", 53, "10.0.0.0/8", "DROP", "pad") }

\* the i-th filler rule of a large instance
PadRule(i) == FirewallRule("UDP", 1000 + i, "10.0.0.0/8", "DROP", "pad")

Pad(k) == [i \in 1..k |-> PadRule(i)]

SeqsUpTo(S, n) == UNION { [1..k -> S] : k \in 0..n }

\* A message is its format string and the values formatted into it.
Message(text, values) == [text |-> text, values |-> values]

\* errors the cloud API answers with (TencentCloudSDKException)
DescribeErrors ==
    { [code |-> "AuthFailure.SignatureFailure",
       message |-> Message("signature mismatch", <<>>), requestId |-> "e-1"] }

\* errors of CreateFirewallRules and DeleteFirewallRules
MutateErrors ==
    { [code |-> "InternalError",
       message |-> Message("internal error", <<>>), requestId |-> "e-2"] }

NoError == [code |-> "", message |-> Message("", <<>>), requestId |-> ""]

\* what a call of the cloud API comes back with: a response, or an exception
Answers(errors) ==
    {[ok |-> TRUE, err |-> NoError]} \cup {[ok |-> FALSE, err |-> e] : e \in errors}

\* answers of an IP-echo endpoint: status code and body text (a sequence of pieces)
TellerResponses ==
    { [status_code |-> 200, text |-> <<PublicIp, "\n">>],
      [status_code |-> 200, text |-> <<PublicIp>>],
      [status_code |-> 500, text |-> <<"error">>] }

(***************************************************************************)
(* Command lines.                                                          *)
(***************************************************************************)
\* add: --port required, the other four have defaults, so all five are set
AddArgs ==
    [protocol : {Some("TCP")}, port : {Some(22)},
     source : {Some("0.0.0.0/0"), Some("dynamic")},
     action : {Some("ACCEPT")}, description : {Some("desc-A"), Some("desc-B")}]

\* del, ls: every filter flag is optional
FilterArgs ==
    [protocol : {None, Some("TCP")}, port : {None, Some(22)},
     source : {None, Some("0.0.0.0/0")},
     action : {None, Some("ACCEPT")}, description : {None, Some("desc-A")}]

NoFilter == [protocol |-> None, port |-> None, source |-> None, action |-> None,
             description |-> None]

LsArgs ==
    { NoFilter,
      [NoFilter EXCEPT !.protocol = Some("TCP"), !.port = Some(22)],
      [NoFilter EXCEPT !.source = Some("0.0.0.0/0"), !.description = Some("desc-A")],
      [NoFilter EXCEPT !.action = Some("ACCEPT")] }

\* del and ls resolve a source given as "dynamic" too
DynamicFilter == [NoFilter EXCEPT !.source = Some("dynamic")]

CommandLines ==
    ({"add"} \X AddArgs) \cup ({"del"} \X FilterArgs) \cup ({"ls"} \X LsArgs)
        \cup ({"del", "ls"} \X {DynamicFilter})

\* command lines of a single query: every combination of filters, for del and ls
QueryCommandLines ==
    ({"add"} \X AddArgs) \cup ({"del", "ls"} \X (FilterArgs \cup {DynamicFilter}))

\* command lines run against a large instance
PagedCommandLines ==
    ({"add"} \X {a \in AddArgs : a.description = Some("desc-A")})
    \cup ({"del"} \X { NoFilter,
                       [NoFilter EXCEPT !.protocol = Some("TCP"), !.port = Some(22)],
                       [NoFilter EXCEPT !.description = Some("pad")] })
    \cup ({"ls"} \X {NoFilter})

VARIABLES
    remote,        \* the instance's rule set in the cloud, in the API's return order
    pc,            \* where the current run stands
    func,          \* the subcommand of the current run: "add", "del", "ls"
    args,          \* its arguments (protocol, port, source, action, description)
    fetched,       \* FirewallRuleSet as DescribeFirewallRules returned it
    resp,          \* what ls_firewall_rule returned: [ok, body]
    result,        \* what the operation returned: [ok, msg]
    exitCode,      \* the process exit code, -1 while the run lasts
    calls,         \* the cloud API requests this run has sent, in order
    remote0,       \* the remote rule set when this run started
    runs,          \* how many runs were started
    prev,          \* the run before this one: its func, args, result, remote0
    raised         \* the exception the cloud API raised last in this run, if any

vars == <<remote, pc, func, args, fetched, resp, result, exitCode, calls, remote0, runs, prev,
          raised>>

Terminal == {"EXISTS_OR_EMPTY", "DONE", "FAILED", "LISTED"}

NoResult == [ok |-> FALSE, msg |-> <<>>]

NoRun == [func |-> "none", args |-> <<>>, result |-> NoResult, remote0 |-> <<>>, calls |-> <<>>]

(***************************************************************************)
(* get_internet_ip                                                         *)
(***************************************************************************)
RECURSIVE lstrip(_, _)
lstrip(text, ch) ==
    IF text # <<>> /\ Head(text) = ch THEN lstrip(Tail(text), ch) ELSE text

RECURSIVE rstrip(_, _)
rstrip(text, ch) ==
    IF text # <<>> /\ text[Len(text)] = ch
    THEN rstrip(SubSeq(text, 1, Len(text) - 1), ch)
    ELSE text

\* str.strip(ch)
strip(text, ch) == rstrip(lstrip(text, ch), ch)

\* the string a sequence of pieces spells (bodies here strip to one piece)
Text(pieces) == IF Len(pieces) = 1 THEN pieces[1] ELSE "?"

RECURSIVE get_internet_ip_from(_, _)
get_internet_ip_from(responses, i) ==
    IF i > Len(tellers) THEN None
    ELSE IF responses[i].status_code = 200
         THEN Some(Text(strip(responses[i].text, "\n")))
         ELSE get_internet_ip_from(responses, i + 1)

get_internet_ip(responses) == get_internet_ip_from(responses, 1)

(***************************************************************************)
(* The cloud API (tencentcloud SDK client), as the script uses it.         *)
(***************************************************************************)
Min(a, b) == IF a < b THEN a ELSE b

\* DescribeFirewallRules with Limit and the default Offset 0: the first page
DescribeFirewallRules(rules, limit) ==
    [FirewallRuleSet |-> SubSeq(rules, 1, Min(limit, Len(rules))),
     RequestId |-> "rid-describe"]

\* A rule as the instance stores it: a missing CidrBlock becomes 0.0.0.0/0.
Stored(rule) ==
    FirewallRule(rule.Protocol[1], rule.Port[1],
                 IF rule.CidrBlock = None THEN DefaultCidr ELSE rule.CidrBlock[1],
                 rule.Action[1], rule.FirewallRuleDescription[1])

\* CreateFirewallRules: the new rules join the set at position pos
CreateFirewallRules(rules, new, pos) ==
    SubSeq(rules, 1, pos) \o [i \in 1..Len(new) |-> Stored(new[i])]
        \o SubSeq(rules, pos + 1, Len(rules))

\* DeleteFirewallRules: the rules listed in the request leave the set
DeleteFirewallRules(rules, gone) ==
    SelectSeq(rules, LAMBDA r : \A i \in 1..Len(gone) : gone[i] # r)

\* Failure without the request id of the error
Failure_NoRequestId(err) == [code |-> err.code, message |-> err.message, requestId |-> ""]

\* except TencentCloudSDKException as err: the dict the handlers return
Failure(err) == [code |-> err.code, message |-> err.message, requestId |-> err.requestId]

(***************************************************************************)
(* ls_firewall_rule                                                        *)
(***************************************************************************)
\* Filter with the port criterion dropped
Filter_SkipsPort(rules, field, criterion) ==
    IF criterion # None /\ field # "Port"
    THEN SelectSeq(rules, LAMBDA x : Some(x[field]) = criterion)
    ELSE rules

\* list(filter(lambda x: x.get(field) == criterion, rules)) when criterion is not None
Filter(rules, field, criterion) ==
    IF criterion # None
    THEN SelectSeq(rules, LAMBDA x : Some(x[field]) = criterion)
    ELSE rules

RECURSIVE FilterAll(_, _, _)
\* the filters of `order` applied one after the other
FilterAll(rules, order, criteria) ==
    IF order = <<>> THEN rules
    ELSE FilterAll(Filter(rules, Head(order), criteria[Head(order)]), Tail(order), criteria)

Criteria(protocol, port, source, action, description) ==
    [Protocol |-> protocol, Port |-> port, CidrBlock |-> source,
     Action |-> action, FirewallRuleDescription |-> description]

\* answer: the outcome of the remote call; rules: the instance's rule set
ls_firewall_rule(answer, rules, protocol, port, source, action, description) ==
    IF answer.ok
    THEN LET r == DescribeFirewallRules(rules, Limit)
         IN  [ok |-> TRUE,
              body |-> [r EXCEPT !.FirewallRuleSet =
                          FilterAll(@, Fields,
                                    Criteria(protocol, port, source, action, description))]]
    ELSE [ok |-> FALSE, body |-> Failure(answer.err)]

(***************************************************************************)
(* Requests sent to the cloud API.                                         *)
(***************************************************************************)
DescribeRequest == [api |-> "DescribeFirewallRules", Limit |-> Limit, FirewallRules |-> <<>>]

\* the FirewallRules parameter of add: one rule with the five given fields
CreateParams(a) ==
    << [Protocol |-> a.protocol, Port |-> a.port, CidrBlock |-> a.source,
        Action |-> a.action, FirewallRuleDescription |-> a.description] >>

CreateRequest(a) == [api |-> "CreateFirewallRules", Limit |-> 0, FirewallRules |-> CreateParams(a)]

\* DeleteParams that lists the first matched rule only
DeleteParams_First(rules_matched) == SubSeq(rules_matched, 1, Min(1, Len(rules_matched)))

\* the FirewallRules parameter of del: resp["FirewallRuleSet"]
DeleteParams(rules_matched) == rules_matched

DeleteRequest(rules_matched) ==
    [api |-> "DeleteFirewallRules", Limit |-> 0, FirewallRules |-> DeleteParams(rules_matched)]

(***************************************************************************)
(* Results.                                                                *)
(***************************************************************************)
AlreadyExists(a, requestId) ==
    [code |-> "ok",
     message |-> Message("rule [({protocol}, {port}, {source}, {action})] already exists",
                         <<a.protocol, a.port, a.source, a.action>>),
     requestId |-> requestId]

Added(requestId) ==
    [code |-> "ok", message |-> Message("Add 1 rules", <<>>), requestId |-> requestId]

NoRulesMatched(requestId) ==
    [code |-> "ok", message |-> Message("No rules matched", <<>>), requestId |-> requestId]

Deleted(rules_matched, requestId) ==
    [code |-> "ok", message |-> Message("Deleted {} rules", <<Len(rules_matched)>>),
     requestId |-> requestId]

\* ExitCode that reports success whatever happened
ExitCode_AlwaysZero(ok) == 0

\* sys.exit(0 if ok else 1)
ExitCode(ok) == IF ok THEN 0 ELSE 1

(***************************************************************************)
(* Initial states: no run yet, some rule set on the instance.              *)
(***************************************************************************)
InitRun ==
    /\ pc = "IDLE"
    /\ func = "none"
    /\ args = <<>>
    /\ fetched = <<>>
    /\ resp = [ok |-> FALSE, body |-> NoError]
    /\ result = NoResult
    /\ exitCode = -1
    /\ calls = <<>>
    /\ remote0 = remote
    /\ runs = 0
    /\ prev = NoRun
    /\ raised = NoError

Init ==
    /\ remote \in SeqsUpTo(RuleUniverse, MaxRules)
    /\ InitRun

\* an instance whose rule set fills the first page or all but one place of it
InitPaged ==
    /\ remote \in { Pad(k) \o t : k \in {Limit - 1, Limit}, t \in SeqsUpTo(TailUniverse, MaxTail) }
    /\ InitRun

(***************************************************************************)
(* main                                                                    *)
(***************************************************************************)
\* no process is running
Exited == Terminal \cup {"IDLE", "USAGE"}

\* what the next run remembers of this one
ThisRun ==
    IF pc = "IDLE" THEN prev
    ELSE [func |-> func, args |-> args, result |-> result, remote0 |-> remote0,
          calls |-> calls]

\* A new process without a subcommand: args.__dict__ is empty, print_help, sys.exit(1)
main_no_command ==
    /\ pc \in Exited
    /\ prev' = ThisRun
    /\ func' = "none"
    /\ args' = <<>>
    /\ pc' = "USAGE"
    /\ fetched' = <<>>
    /\ resp' = [ok |-> FALSE, body |-> NoError]
    /\ result' = NoResult
    /\ exitCode' = 1
    /\ calls' = <<>>
    /\ remote0' = remote
    /\ raised' = NoError
    /\ runs' = runs + 1
    /\ UNCHANGED remote

\* A new process: parse_args, then the dispatch that follows.
main(cmd) ==
    /\ pc \in Exited
    /\ runs' = runs + 1
    /\ prev' = ThisRun
    /\ func' = cmd[1]
    /\ args' = cmd[2]
    /\ pc' = IF cmd[2].source = Some("dynamic") THEN "RESOLVE" ELSE "START"
    /\ fetched' = <<>>
    /\ resp' = [ok |-> FALSE, body |-> NoError]
    /\ result' = NoResult
    /\ exitCode' = -1
    /\ calls' = <<>>
    /\ remote0' = remote
    /\ raised' = NoError
    /\ UNCHANGED remote

\* args.__dict__["source"] = get_internet_ip()
main_resolve(responses) ==
    /\ pc = "RESOLVE"
    /\ args' = [args EXCEPT !.source = get_internet_ip(responses)]
    /\ pc' = "START"
    /\ UNCHANGED <<remote, func, fetched, resp, result, exitCode, calls, remote0, runs, prev, raised>>

\* the operation starts: its query is sent
query_send ==
    /\ pc = "START"
    /\ calls' = Append(calls, DescribeRequest)
    /\ pc' = "QUERYING"
    /\ UNCHANGED <<remote, func, args, fetched, resp, result, exitCode, remote0, runs, prev, raised>>

Finish(state, ok, msg) ==
    /\ pc' = state
    /\ result' = [ok |-> ok, msg |-> msg]
    /\ exitCode' = ExitCode(ok)

(***************************************************************************)
(* ls                                                                      *)
(***************************************************************************)
ls_return(answer) ==
    /\ pc = "QUERYING"
    /\ func = "ls"
    /\ LET r == ls_firewall_rule(answer, remote, args.protocol, args.port, args.source,
                                 args.action, args.description)
       IN  /\ resp' = r
           /\ fetched' = IF answer.ok THEN DescribeFirewallRules(remote, Limit).FirewallRuleSet
                         ELSE <<>>
           /\ Finish(IF r.ok THEN "LISTED" ELSE "FAILED", r.ok, r.body)
    /\ raised' = answer.err
    /\ UNCHANGED <<remote, func, args, calls, remote0, runs, prev>>

(***************************************************************************)
(* add_firewall_rule                                                       *)
(***************************************************************************)
\* the existence check leaves the description out
add_query(answer) ==
    ls_firewall_rule(answer, remote, args.protocol, args.port, args.source, args.action, None)

add_exists(rules_matched) == Len(rules_matched) >= 1

add_firewall_rule_query(answer) ==
    /\ pc = "QUERYING"
    /\ func = "add"
    /\ LET r == add_query(answer)
       IN  /\ resp' = r
           /\ fetched' = IF answer.ok THEN DescribeFirewallRules(remote, Limit).FirewallRuleSet
                         ELSE <<>>
           /\ IF ~r.ok
              THEN Finish("FAILED", FALSE, r.body) /\ UNCHANGED calls
              ELSE IF add_exists(r.body.FirewallRuleSet)
                   THEN /\ Finish("EXISTS_OR_EMPTY", TRUE, AlreadyExists(args, r.body.RequestId))
                        /\ UNCHANGED calls
                   ELSE /\ calls' = Append(calls, CreateRequest(args))
                        /\ pc' = "MUTATING"
                        /\ UNCHANGED <<result, exitCode>>
    /\ raised' = answer.err
    /\ UNCHANGED <<remote, func, args, remote0, runs, prev>>

add_firewall_rule_create(answer, pos) ==
    /\ pc = "MUTATING"
    /\ func = "add"
    /\ IF answer.ok
       THEN /\ remote' = CreateFirewallRules(remote, calls[Len(calls)].FirewallRules, pos)
            /\ Finish("DONE", TRUE, Added("rid-create"))
       ELSE /\ Finish("FAILED", FALSE, Failure(answer.err))
            /\ UNCHANGED remote
    /\ raised' = answer.err
    /\ UNCHANGED <<func, args, fetched, resp, calls, remote0, runs, prev>>

(***************************************************************************)
(* del_firewall_rule                                                       *)
(***************************************************************************)
\* del_query that leaves the description out, as add's query does
del_query_NoDescription(answer) ==
    ls_firewall_rule(answer, remote, args.protocol, args.port, args.source, args.action, None)

del_query(answer) ==
    ls_firewall_rule(answer, remote, args.protocol, args.port, args.source, args.action,
                     args.description)

\* del_empty that never sees an empty result
del_empty_Never(rules_matched) == Len(rules_matched) < 0

del_empty(rules_matched) == Len(rules_matched) = 0

del_firewall_rule_query(answer) ==
    /\ pc = "QUERYING"
    /\ func = "del"
    /\ LET r == del_query(answer)
       IN  /\ resp' = r
           /\ fetched' = IF answer.ok THEN DescribeFirewallRules(remote, Limit).FirewallRuleSet
                         ELSE <<>>
           /\ IF ~r.ok
              THEN Finish("FAILED", FALSE, r.body) /\ UNCHANGED calls
              ELSE IF del_empty(r.body.FirewallRuleSet)
                   THEN /\ Finish("EXISTS_OR_EMPTY", TRUE, NoRulesMatched(r.body.RequestId))
                        /\ UNCHANGED calls
                   ELSE /\ calls' = Append(calls, DeleteRequest(r.body.FirewallRuleSet))
                        /\ pc' = "MUTATING"
                        /\ UNCHANGED <<result, exitCode>>
    /\ raised' = answer.err
    /\ UNCHANGED <<remote, func, args, remote0, runs, prev>>

del_firewall_rule_delete(answer) ==
    /\ pc = "MUTATING"
    /\ func = "del"
    /\ IF answer.ok
       THEN /\ remote' = DeleteFirewallRules(remote, calls[Len(calls)].FirewallRules)
            /\ Finish("DONE", TRUE, Deleted(resp.body.FirewallRuleSet, "rid-delete"))
       ELSE /\ Finish("FAILED", FALSE, Failure(answer.err))
            /\ UNCHANGED remote
    /\ raised' = answer.err
    /\ UNCHANGED <<func, args, fetched, resp, calls, remote0, runs, prev>>

(***************************************************************************)
(* Specifications.                                                         *)
(***************************************************************************)
Main == runs < MaxRuns /\ ((\E cmd \in CommandLines : main(cmd)) \/ main_no_command)

MainQuery == runs = 0 /\ ((\E cmd \in QueryCommandLines : main(cmd)) \/ main_no_command)

MainPaged ==
    runs < MaxPagedRuns /\ ((\E cmd \in PagedCommandLines : main(cmd)) \/ main_no_command)

Resolve == \E responses \in [1..Len(tellers) -> TellerResponses] : main_resolve(responses)

LsReturn == \E answer \in Answers(DescribeErrors) : ls_return(answer)

AddQuery == \E answer \in Answers(DescribeErrors) : add_firewall_rule_query(answer)

AddCreate == \E answer \in Answers(MutateErrors) : \E pos \in {0, Len(remote)} : add_firewall_rule_create(answer, pos)

DelQuery == \E answer \in Answers(DescribeErrors) : del_firewall_rule_query(answer)

DelDelete == \E answer \in Answers(MutateErrors) : del_firewall_rule_delete(answer)

\* the steps of a run that is under way
Step == Resolve \/ query_send \/ LsReturn \/ AddQuery \/ AddCreate \/ DelQuery \/ DelDelete

Next ==
    \/ Main
    \/ Resolve
    \/ query_send
    \/ LsReturn
    \/ AddQuery
    \/ AddCreate
    \/ DelQuery
    \/ DelDelete

Spec == Init /\ [][Next]_vars

NextPaged ==
    \/ MainPaged
    \/ Resolve
    \/ query_send
    \/ LsReturn
    \/ AddQuery
    \/ AddCreate
    \/ DelQuery
    \/ DelDelete

\* instances whose rule set reaches the page limit
SpecPaged == InitPaged /\ [][NextPaged]_vars

NextQuery ==
    \/ MainQuery
    \/ Resolve
    \/ query_send
    \/ LsReturn
    \/ AddQuery
    \/ AddCreate
    \/ DelQuery
    \/ DelDelete

\* one run, with every combination of filters
SpecQuery == Init /\ [][NextQuery]_vars

\* one run; every call of a run blocks until it returns, so a run under way takes
\* its next step
LiveSpec == Init /\ [][NextQuery]_vars /\ WF_vars(Step)

(***************************************************************************)
(* Vocabulary of the properties.                                           *)
(***************************************************************************)
RunFields == [Protocol |-> "protocol", Port |-> "port", CidrBlock |-> "source",
              Action |-> "action", FirewallRuleDescription |-> "description"]

FieldSet == {Fields[i] : i \in 1..Len(Fields)}

\* the rule's field equals the argument, for each field of F
EqualsOn(rule, a, F) == \A f \in F : Some(rule[f]) = a[RunFields[f]]

\* the rule meets every criterion of a that is set
Meets(rule, a) == \A f \in FieldSet : a[RunFields[f]] # None => Some(rule[f]) = a[RunFields[f]]

FourFields == {"Protocol", "Port", "CidrBlock", "Action"}

Count(rules, P(_)) == Cardinality({i \in 1..Len(rules) : P(rules[i])})

Sent(api) == {i \in 1..Len(calls) : calls[i].api = api}

\* the query of this run has returned
Queried == pc \in {"EXISTS_OR_EMPTY", "MUTATING", "DONE", "FAILED", "LISTED"}

\* the criteria the run's query was made with
QueryArgs == IF func = "add" THEN [args EXCEPT !.description = None] ELSE args

\* every order in which the five filters can be applied
FilterOrders ==
    { [i \in 1..Len(Fields) |-> Fields[p[i]]] :
        p \in {q \in [1..Len(Fields) -> 1..Len(Fields)] :
                 \A i, j \in 1..Len(Fields) : q[i] = q[j] => i = j} }

(***************************************************************************)
(* C4.  A successful query returns exactly the fetched rules that equal    *)
(* every criterion that is set, in the order the cloud API returned them;  *)
(* with no criterion set it returns the fetched rules unmodified; and no   *)
(* order of applying the five filters gives another result.                *)
(***************************************************************************)
C4_QueryIsConjunction ==
    (Queried /\ resp.ok) =>
        /\ resp.body.FirewallRuleSet = SelectSeq(fetched, LAMBDA x : Meets(x, QueryArgs))
        /\ (QueryArgs = NoFilter => resp.body.FirewallRuleSet = fetched)
        /\ \A order \in FilterOrders :
              FilterAll(fetched, order,
                        Criteria(QueryArgs.protocol, QueryArgs.port, QueryArgs.source,
                                 QueryArgs.action, QueryArgs.description))
                = resp.body.FirewallRuleSet

\* a query on two criteria that keeps one fetched rule and drops another
C4_Witness ==
    /\ pc = "LISTED"
    /\ args = [NoFilter EXCEPT !.protocol = Some("TCP"), !.port = Some(22)]
    /\ Len(fetched) = 2
    /\ Len(resp.body.FirewallRuleSet) = 1
    /\ fetched[1].Protocol = "TCP" /\ fetched[1].Port = 80
(***************************************************************************)
(* C2.  When its query succeeds, add sends a create request if and only if *)
(* no fetched rule equals the call on all four of protocol, port, source   *)
(* and action (the description plays no part); the request then carries    *)
(* exactly one rule with the five given fields, and the call returns       *)
(* success with the message 'Add 1 rules'.                                 *)
(***************************************************************************)
C2_CreateIffNoEqualRule ==
    (func = "add" /\ Queried /\ resp.ok) =>
        /\ Sent("CreateFirewallRules") # {}
             <=> ~ \E i \in 1..Len(fetched) : EqualsOn(fetched[i], args, FourFields)
        /\ \A i \in Sent("CreateFirewallRules") :
              /\ Len(calls[i].FirewallRules) = 1
              /\ \A f \in FieldSet : calls[i].FirewallRules[1][f] = args[RunFields[f]]
        /\ pc = "DONE" =>
              /\ result.ok
              /\ result.msg.message = Message("Add 1 rules", <<>>)

(***************************************************************************)
(* C3.  When del's query succeeds with n >= 1 matching rules, del sends    *)
(* exactly one delete request, whose rule list is exactly the matched      *)
(* rules; on success it reports 'Deleted n rules', and every fetched rule  *)
(* that does not match is still in the remote rule set.                    *)
(***************************************************************************)
C3_DeleteExactlyMatched ==
    LET matched == SelectSeq(fetched, LAMBDA x : Meets(x, args))
        n == Len(matched)
    IN  (func = "del" /\ Queried /\ resp.ok /\ n >= 1) =>
            /\ Cardinality(Sent("DeleteFirewallRules")) = 1
            /\ \A i \in Sent("DeleteFirewallRules") : calls[i].FirewallRules = matched
            /\ pc = "DONE" =>
                  /\ result.ok
                  /\ result.msg.message = Message("Deleted {} rules", <<n>>)
                  /\ \A i \in 1..Len(fetched) :
                        ~Meets(fetched[i], args) =>
                            \E j \in 1..Len(remote) : remote[j] = fetched[i]

\* one of two fetched rules matches the criteria and is deleted, the other stays
C3_Witness ==
    /\ func = "del" /\ pc = "DONE"
    /\ Len(fetched) = 2
    /\ Len(resp.body.FirewallRuleSet) = 1
    /\ Len(remote) = 1
    /\ args.description # None

(***************************************************************************)
(* C5.  When del's query succeeds and no fetched rule matches, del returns *)
(* success with 'No rules matched', sends no delete request and leaves the *)
(* remote rule set unchanged.                                              *)
(***************************************************************************)
C5_NoMatchNoMutation ==
    (func = "del" /\ Queried /\ resp.ok
       /\ \A i \in 1..Len(fetched) : ~Meets(fetched[i], args)) =>
        /\ pc = "EXISTS_OR_EMPTY"
        /\ result.ok
        /\ result.msg.message = Message("No rules matched", <<>>)
        /\ Sent("DeleteFirewallRules") = {}
        /\ remote = remote0

\* a del whose criteria no rule of a non-empty rule set meets
C5_Witness ==
    /\ func = "del" /\ pc = "EXISTS_OR_EMPTY"
    /\ Len(fetched) >= 1
    /\ remote = remote0

(***************************************************************************)
(* C7.  A failed list call makes the query return failure with the remote  *)
(* error's code, message and request id; add and del return that same      *)
(* value, send no create or delete request and leave the remote rule set   *)
(* unchanged.  A failed create or delete call is returned as failure with  *)
(* the remote code, message and request id.                                *)
(***************************************************************************)
C7_FailurePropagates ==
    /\ (Queried /\ ~resp.ok) =>
          /\ pc = "FAILED"
          /\ resp.body = [code |-> raised.code, message |-> raised.message,
                          requestId |-> raised.requestId]
          /\ result = [ok |-> FALSE, msg |-> resp.body]
          /\ calls = <<DescribeRequest>>
          /\ remote = remote0
    /\ (pc = "FAILED" /\ resp.ok) =>
          /\ Len(calls) = 2
          /\ result = [ok |-> FALSE,
                       msg |-> [code |-> raised.code, message |-> raised.message,
                                requestId |-> raised.requestId]]
          /\ remote = remote0

\* an add whose list call failed on an instance that holds rules
C7_Witness ==
    /\ pc = "FAILED"
    /\ func = "add"
    /\ ~resp.ok
    /\ raised \in DescribeErrors
    /\ result.msg.requestId = "e-1"
    /\ Len(remote) >= 1

(***************************************************************************)
(* C8.  When add runs with the dynamic source and every IP-echo provider   *)
(* answers non-200, the run ends with exit code 1 and sends neither a list *)
(* call with an unconstrained source nor a create request.                 *)
(***************************************************************************)
C8_ResolutionFailureSurfaced ==
    (func = "add" /\ pc # "RESOLVE" /\ args.source = None) =>
        /\ calls = <<>>
        /\ pc \in Terminal => exitCode = 1

(***************************************************************************)
(* C10.  del with all five criteria unset on an instance with at least one *)
(* rule sends a delete request for every fetched rule; after a successful  *)
(* run none of the fetched rules remains in the remote rule set.           *)
(***************************************************************************)
C10_DeleteAllWhenUnfiltered ==
    (func = "del" /\ args = NoFilter /\ Queried /\ resp.ok /\ Len(remote0) >= 1) =>
        /\ \E i \in Sent("DeleteFirewallRules") : calls[i].FirewallRules = fetched
        /\ pc = "DONE" =>
              /\ result.ok
              /\ \A i \in 1..Len(fetched) : \A j \in 1..Len(remote) : remote[j] # fetched[i]

\* an unfiltered del that emptied an instance of two rules
C10_Witness ==
    /\ func = "del" /\ args = NoFilter /\ pc = "DONE"
    /\ Len(fetched) = 2
    /\ remote = <<>>
\* the previous run and this one are the same call, both ended without a remote failure
SameCallTwice(f, argNames) ==
    /\ func = f /\ prev.func = f
    /\ pc \in Terminal
    /\ prev.result.ok /\ result.ok
    /\ \A a \in argNames : prev.args[a] = args[a]

(***************************************************************************)
(* C1.  Add is idempotent: for every four values (protocol, port, source,  *)
(* action) and every remote rule set, of any size, that holds no rule with *)
(* these four values, two consecutive add calls with these values and no   *)
(* remote failure leave exactly one rule with these values; the second     *)
(* call returns success with the 'already exists' message and sends no     *)
(* create request.  (A run whose source was not resolved has no four       *)
(* values and is left aside.)                                              *)
(***************************************************************************)
C1_AddTwiceOneRule ==
    (/\ SameCallTwice("add", {"protocol", "port", "source", "action"})
     /\ args.source # None
     /\ \A i \in 1..Len(prev.remote0) : ~EqualsOn(prev.remote0[i], args, FourFields)) =>
        /\ Count(remote, LAMBDA r : EqualsOn(r, args, FourFields)) = 1
        /\ result.msg = AlreadyExists(args, result.msg.requestId)
        /\ Sent("CreateFirewallRules") = {}

\* C1 on instances whose rule set, the new rule included, fits the page of the list call
C1_AddTwiceOneRule_WithinPage ==
    Len(prev.remote0) < Limit => C1_AddTwiceOneRule

(***************************************************************************)
(* C6.  Repeated deletes converge to a no-op: for every criteria and every *)
(* remote rule set, of any size, after a del call has succeeded, a second  *)
(* del call with the same criteria and no remote failure returns success   *)
(* with 'No rules matched' and sends no delete request.                    *)
(***************************************************************************)
C6_DelTwiceNoOp ==
    SameCallTwice("del", {"protocol", "port", "source", "action", "description"}) =>
        /\ result.msg.message = Message("No rules matched", <<>>)
        /\ Sent("DeleteFirewallRules") = {}

\* C6 on instances whose rule set fits the page of the list call
C6_DelTwiceNoOp_WithinPage ==
    Len(prev.remote0) <= Limit => C6_DelTwiceNoOp

\* the run is one of the two mutators
Mutator == func \in {"add", "del"}

\* the mutation call of the run's mutator
MutationApi == IF func = "add" THEN "CreateFirewallRules" ELSE "DeleteFirewallRules"

\* the edges of the state machine of a mutator run
C9_Edges ==
    { <<"START", "QUERYING">>,
      <<"QUERYING", "EXISTS_OR_EMPTY">>, <<"QUERYING", "MUTATING">>, <<"QUERYING", "FAILED">>,
      <<"MUTATING", "DONE">>, <<"MUTATING", "FAILED">> }

\* the calls sent so far and the exit code fit the state the run is in
C9_Calls ==
    Mutator =>
        /\ pc \in {"RESOLVE", "START"} => calls = <<>>
        /\ pc \in {"QUERYING", "EXISTS_OR_EMPTY"} => calls = <<DescribeRequest>>
        /\ pc = "FAILED" => Len(calls) \in {1, 2}
        /\ pc \in {"MUTATING", "DONE"} => Len(calls) = 2
        /\ Len(calls) >= 1 => calls[1] = DescribeRequest
        /\ Len(calls) = 2 =>
              /\ calls[2].api = MutationApi
              /\ resp.ok
              /\ func = "add" => Len(resp.body.FirewallRuleSet) = 0
              /\ func = "del" => Len(resp.body.FirewallRuleSet) >= 1
        /\ pc \in {"EXISTS_OR_EMPTY", "DONE"} => exitCode = 0
        /\ pc = "FAILED" => exitCode = 1

\* a mutator run moves along the edges only
C9_Step ==
    (Mutator /\ pc \in {"START", "QUERYING", "MUTATING"} /\ pc' # pc) =>
        <<pc, pc'>> \in C9_Edges

(***************************************************************************)
(* C9.  Every run of add or del follows START -> QUERYING ->               *)
(* {EXISTS_OR_EMPTY | MUTATING -> DONE | FAILED}: one list call (limit     *)
(* 100) first, then at most one mutation call (create for add, delete for  *)
(* del), sent only after a successful query with zero matches for add and  *)
(* at least one for del; every run reaches a terminal state; the exit code *)
(* is 0 in EXISTS_OR_EMPTY and DONE and 1 in FAILED.                       *)
(***************************************************************************)
C9_StateMachine ==
    /\ []C9_Calls
    /\ [][C9_Step]_vars
    /\ (Mutator /\ pc \in {"RESOLVE", "START"}) ~> (pc \in {"EXISTS_OR_EMPTY", "DONE", "FAILED"})

\* a del that went START -> QUERYING -> MUTATING -> DONE with its two calls
C9_Witness ==
    /\ func = "del" /\ pc = "DONE"
    /\ Len(calls) = 2
    /\ exitCode = 0
====
